---- MODULE Spec2Model ----
(***************************************************************************)
(* A model of the type-definition layer of evenco/go-graphql               *)
(* (src/validator.go): the constructors of the eight type variants, the    *)
(* lazy accessors of Object and Interface, the Enum lookup tables and the  *)
(* abstract-type resolution.                                               *)
(*                                                                         *)
(* Go pointers are indices into `heap`, the sequence of every type value   *)
(* constructed so far, in construction order; NIL is the nil pointer.      *)
(* Names are tuples of one-character strings, so that the name pattern     *)
(* and the sorts by name are computed, not assumed.                        *)
(***************************************************************************)
EXTENDS Integers, Sequences, FiniteSets, TLC

VARIABLES
    heap,   \* every type value constructed so far; a pointer is an index
    ret,    \* the last call: [op, recv, arg, val, thunks]
    consultedAt
            \* history: for each Interface whose possible-type name set has
            \* been consulted, Len(heap) at the first consultation (first)
            \* and at the first one that found an implementation (filled,
            \* 0 while there was none)

vars == <<heap, ret, consultedAt>>

-----------------------------------------------------------------------------
(* Bounds of the model.                                                    *)

MaxWrapTypes == 4      \* type values built in SpecWrap

MaxEnumValues == 2     \* entries of an EnumValueConfigMap

MaxInputObjects == 1   \* InputObjects built in SpecInput

MaxInputFields == 2    \* entries of an InputObjectConfigFieldMap

MaxInterfaces == 2     \* Interfaces built in Spec

MaxIfaceList == 2      \* entries of an Object's Interfaces list

MaxNameLen == 3        \* characters of a name given to assertValidName

MaxObjectFields == 2   \* entries of the Fields map given to NewObject in SpecFields

MaxRegObjects == 2     \* Objects built in SpecReg

MaxRegInterfaces == 1  \* Interfaces built in SpecReg

MaxResolveObjects == 2 \* Objects built in SpecResolve

MaxMembers == 2        \* entries of a Union's Types list

-----------------------------------------------------------------------------
(* Go values.                                                              *)

NIL == 0

\* The result of GetNamed's `for` loop when it does not exit.
Diverged == -1

Ptrs(h) == 1..Len(h)

NoName == <<>>

NilName == <<"<", "n", "i", "l", ">">>

\* An error value: the message's template and the values formatted into it.
Err(msg, a, b, c) == [msg |-> msg, a |-> a, b |-> b, c |-> c]

NoErr == Err("", NoName, NoName, NoName)

NewFormattedError(msg, a, b, c) == Err(msg, a, b, c)

\* A function value (callback) of a config: absent (nil) or present; an
\* isTypeOf predicate is present with the set of values it accepts.
NilFn == [nil |-> TRUE, accepts |-> {}]

SomeFn == [nil |-> FALSE, accepts |-> {}]

-----------------------------------------------------------------------------
(* Name validation: NAME_REGEXP = ^[_a-zA-Z][_a-zA-Z0-9]*$ run as the      *)
(* automaton the pattern compiles to.                                      *)

Digits == {"0", "1", "2", "3", "4", "5", "6", "7", "8", "9"}

Letters ==
    {"a", "b", "c", "d", "e", "f", "g", "h", "i", "j", "k", "l", "m",
     "n", "o", "p", "q", "r", "s", "t", "u", "v", "w", "x", "y", "z",
     "A", "B", "C", "D", "E", "F", "G", "H", "I", "J", "K", "L", "M",
     "N", "O", "P", "Q", "R", "S", "T", "U", "V", "W", "X", "Y", "Z", "_"}

RECURSIVE MatchFrom(_, _, _)
MatchFrom(name, i, st) ==
    IF i > Len(name) THEN st = "rest"
    ELSE IF st = "start"
         THEN name[i] \in Letters /\ MatchFrom(name, i + 1, "rest")
         ELSE name[i] \in (Letters \cup Digits) /\ MatchFrom(name, i + 1, "rest")

\* The pattern without the class of its first character: [_a-zA-Z0-9]*.
MatchStringOfRestOnly(name) == MatchFrom(name, 1, "rest")

NAME_REGEXP_MatchString(name) == MatchFrom(name, 1, "start")

assertValidName(name) ==
    IF ~NAME_REGEXP_MatchString(name)
    THEN NewFormattedError("NamesMustMatch", name, NoName, NoName)
    ELSE NoErr

-----------------------------------------------------------------------------
(* SpecName: assertValidName on the strings of at most MaxNameLen          *)
(* characters over letters of both cases, the underscore, a digit and a    *)
(* symbol.                                                                 *)

NameAlphabet == {"a", "Z", "_", "9", "-"}

NameInputs == UNION {[1..n -> NameAlphabet] : n \in 0..MaxNameLen}

InitName ==
    /\ heap = <<>>
    /\ ret = [op |-> "", recv |-> NIL, arg |-> NIL, val |-> NIL, thunks |-> 0]
    /\ consultedAt = <<>>

DoAssertValidName ==
    \E name \in NameInputs :
        /\ ret' = [op |-> "assertValidName", recv |-> NIL, arg |-> name,
                   val |-> assertValidName(name), thunks |-> 0]
        /\ UNCHANGED <<heap, consultedAt>>

NextName == DoAssertValidName

SpecName == InitName /\ [][NextName]_vars

\* C15: assertValidName(name) returns nil iff name has one or more
\* characters, the first in [A-Za-z_] and the others in [A-Za-z0-9_]; for
\* every other string (empty, leading digit, embedded symbol) it returns an
\* error, which quotes the name.
C15_ValidNameIffPattern ==
    ret.op = "assertValidName"
    => LET name == ret.arg
           valid == /\ Len(name) >= 1
                    /\ name[1] \in Letters
                    /\ \A i \in 2..Len(name) : name[i] \in Letters \cup Digits
       IN  /\ valid <=> ret.val = NoErr
           /\ ~valid => (ret.val.msg = "NamesMustMatch" /\ ret.val.a = name)

\* A name of full length that starts with a letter and has a symbol inside
\* is refused.
C15_Witness ==
    /\ ret.op = "assertValidName"
    /\ Len(ret.arg) = MaxNameLen
    /\ ret.arg[1] \in Letters
    /\ \E i \in 2..Len(ret.arg) : ret.arg[i] = "-"
    /\ ret.val # NoErr

-----------------------------------------------------------------------------
(* Scalar.                                                                 *)

ScalarConfig(name, serialize, parseValue, parseLiteral) ==
    [Name |-> name, Serialize |-> serialize,
     ParseValue |-> parseValue, ParseLiteral |-> parseLiteral]

ZeroScalarConfig == ScalarConfig(NoName, NilFn, NilFn, NilFn)

Scalar(name, config, err) ==
    [kind |-> "Scalar", Name |-> name, scalarConfig |-> config, err |-> err]

NewScalar(config) ==
    IF config.Name = NoName
    THEN Scalar(NoName, ZeroScalarConfig,
                NewFormattedError("TypeMustBeNamed", NoName, NoName, NoName))
    ELSE IF assertValidName(config.Name) # NoErr
    THEN Scalar(NoName, ZeroScalarConfig, assertValidName(config.Name))
    ELSE IF config.Serialize.nil
    THEN Scalar(config.Name, ZeroScalarConfig,
                NewFormattedError("ScalarMustProvideSerialize", config.Name, NoName, NoName))
    ELSE IF config.ParseValue.nil \/ config.ParseLiteral.nil
    THEN Scalar(config.Name, ZeroScalarConfig,
                NewFormattedError("ScalarMustProvideBothParse", config.Name, NoName, NoName))
    ELSE Scalar(config.Name, config, NoErr)

-----------------------------------------------------------------------------
(* List and NonNull.                                                       *)

List(ofType, err) == [kind |-> "List", OfType |-> ofType, err |-> err]

NonNull(ofType, err) == [kind |-> "NonNull", OfType |-> ofType, err |-> err]

\* fmt's %v of a type value: its String(); "<nil>" for a nil interface.
RECURSIVE String(_, _)
String(h, t) ==
    IF t = NIL THEN NilName
    ELSE IF h[t].kind = "List"
    THEN IF h[t].OfType # NIL THEN <<"[">> \o String(h, h[t].OfType) \o <<"]">> ELSE NoName
    ELSE IF h[t].kind = "NonNull"
    THEN IF h[t].OfType # NIL THEN String(h, h[t].OfType) \o <<"!">> ELSE NoName
    ELSE h[t].Name

NewList(h, ofType) ==
    IF ofType = NIL
    THEN List(NIL, NewFormattedError("CanOnlyCreateListOf", String(h, ofType), NoName, NoName))
    ELSE List(ofType, NoErr)

NewNonNullAcceptingNonNull(h, ofType) ==
    IF ofType = NIL
    THEN NonNull(NIL, NewFormattedError("CanOnlyCreateNonNullOf", String(h, ofType), NoName, NoName))
    ELSE NonNull(ofType, NoErr)

NewNonNull(h, ofType) ==
    LET isOfTypeNonNull == ofType # NIL /\ h[ofType].kind = "NonNull"
    IN  IF ofType = NIL \/ isOfTypeNonNull
        THEN NonNull(NIL, NewFormattedError("CanOnlyCreateNonNullOf", String(h, ofType), NoName, NoName))
        ELSE NonNull(ofType, NoErr)

IsList(h, t) == t # NIL /\ h[t].kind = "List"

IsNonNull(h, t) == t # NIL /\ h[t].kind = "NonNull"

\* GetNamed's loop; `fuel` counts the iterations left before the run is
\* reported as not terminating.
RECURSIVE GetNamedLoop(_, _, _)
GetNamedLoop(h, unmodifiedType, fuel) ==
    IF fuel = 0 THEN Diverged
    ELSE IF IsList(h, unmodifiedType)
    THEN GetNamedLoop(h, h[unmodifiedType].OfType, fuel - 1)
    ELSE IF IsNonNull(h, unmodifiedType)
    THEN GetNamedLoop(h, h[unmodifiedType].OfType, fuel - 1)
    ELSE unmodifiedType

RECURSIVE GetNamedLoopKeepingNonNull(_, _, _)
GetNamedLoopKeepingNonNull(h, unmodifiedType, fuel) ==
    IF fuel = 0 THEN Diverged
    ELSE IF IsList(h, unmodifiedType)
    THEN GetNamedLoopKeepingNonNull(h, h[unmodifiedType].OfType, fuel - 1)
    ELSE unmodifiedType

GetNamedKeepingNonNull(h, ttype) == GetNamedLoopKeepingNonNull(h, ttype, Len(h) + 1)

GetNamed(h, ttype) == GetNamedLoop(h, ttype, Len(h) + 1)

-----------------------------------------------------------------------------
(* SpecWrap: scalars and wrappers over them.                               *)

NameOdd == <<"O", "d", "d">>

NameDigitFirst == <<"1", "x">>

ScalarNames == {NoName, NameOdd, NameDigitFirst}

Fns == {NilFn, SomeFn}

ScalarConfigs ==
    {ScalarConfig(n, s, pv, pl) : n \in ScalarNames, s \in Fns, pv \in Fns, pl \in Fns}

\* A call as its caller sees it: the operation, its receiver and argument,
\* the value returned, and how many times it invoked a thunk of the config.
CallT(op, recv, arg, val, thunks) ==
    [op |-> op, recv |-> recv, arg |-> arg, val |-> val, thunks |-> thunks]

Call(op, recv, arg, val) == CallT(op, recv, arg, val, 0)

NoCall == Call("", NIL, NIL, NIL)

InitWrap ==
    /\ heap = <<>>
    /\ ret = NoCall
    /\ consultedAt = <<>>

DoNewScalar ==
    /\ Len(heap) < MaxWrapTypes
    /\ \E config \in ScalarConfigs :
        /\ heap' = Append(heap, NewScalar(config))
        /\ ret' = Call("NewScalar", NIL, config, Len(heap) + 1)
        /\ UNCHANGED consultedAt

DoNewList ==
    /\ Len(heap) < MaxWrapTypes
    /\ \E ofType \in {NIL} \cup Ptrs(heap) :
        /\ heap' = Append(heap, NewList(heap, ofType))
        /\ ret' = Call("NewList", NIL, ofType, Len(heap) + 1)
        /\ UNCHANGED consultedAt

DoNewNonNull ==
    /\ Len(heap) < MaxWrapTypes
    /\ \E ofType \in {NIL} \cup Ptrs(heap) :
        /\ heap' = Append(heap, NewNonNull(heap, ofType))
        /\ ret' = Call("NewNonNull", NIL, ofType, Len(heap) + 1)
        /\ UNCHANGED consultedAt

DoGetNamed ==
    /\ \E ttype \in {NIL} \cup Ptrs(heap) :
        /\ ret' = Call("GetNamed", NIL, ttype, GetNamed(heap, ttype))
        /\ UNCHANGED <<heap, consultedAt>>

NextWrap == DoNewScalar \/ DoNewList \/ DoNewNonNull \/ DoGetNamed

SpecWrap == InitWrap /\ [][NextWrap]_vars

-----------------------------------------------------------------------------
(* Claims settled under SpecWrap.                                          *)

IsWrapper(h, t) == IsList(h, t) \/ IsNonNull(h, t)

\* n is reached from t through wrappers only, each built without error:
\* t is n, or t is such a wrapper around a type from which n is reached.
RECURSIVE WrapsOver(_, _, _)
WrapsOver(h, t, n) ==
    \/ t = n
    \/ /\ IsWrapper(h, t)
       /\ h[t].err = NoErr
       /\ h[t].OfType # NIL
       /\ WrapsOver(h, h[t].OfType, n)

\* C1: NewScalar given a valid name and a Serialize function constructs
\* without error when ParseValue and ParseLiteral are both absent, and
\* records an error when exactly one of the two is supplied.
C1_OutputOnlyScalarConstructs ==
    (ret.op = "NewScalar" /\ NAME_REGEXP_MatchString(ret.arg.Name) /\ ~ret.arg.Serialize.nil)
        => /\ (ret.arg.ParseValue.nil /\ ret.arg.ParseLiteral.nil)
                => heap[ret.val].err = NoErr
           /\ (ret.arg.ParseValue.nil # ret.arg.ParseLiteral.nil)
                => heap[ret.val].err # NoErr

\* C9: NewNonNull of a NonNull and NewNonNull(nil) and NewList(nil) record an
\* error; NewList of a non-nil type and NewNonNull of a non-nil type that is
\* not a NonNull record none.
C9_WrapperConstruction ==
    /\ ret.op = "NewNonNull"
          => (heap[ret.val].err # NoErr <=> (ret.arg = NIL \/ IsNonNull(heap, ret.arg)))
    /\ ret.op = "NewList"
          => (heap[ret.val].err # NoErr <=> ret.arg = NIL)

C9_Witness ==
    /\ ret.op = "NewNonNull"
    /\ IsNonNull(heap, ret.arg)
    /\ heap[ret.arg].err = NoErr
    /\ heap[ret.val].err # NoErr

\* C10: GetNamed terminates on every type built by the constructors, and on
\* any nesting of List and NonNull wrappers over a type N that is not a
\* wrapper it returns N itself.
C10_GetNamedInnermost ==
    /\ \A t \in {NIL} \cup Ptrs(heap) : GetNamed(heap, t) # Diverged
    /\ \A t \in Ptrs(heap) : \A n \in Ptrs(heap) :
          (~IsWrapper(heap, n) /\ WrapsOver(heap, t, n)) => GetNamed(heap, t) = n

C10_Witness ==
    /\ ret.op = "GetNamed"
    /\ IsNonNull(heap, ret.arg)
    /\ IsList(heap, heap[ret.arg].OfType)
    /\ IsNonNull(heap, heap[heap[ret.arg].OfType].OfType)
    /\ ret.val # NIL
    /\ ret.val = heap[heap[heap[ret.arg].OfType].OfType].OfType
    /\ heap[ret.val].kind = "Scalar"
    /\ heap[ret.val].err = NoErr

-----------------------------------------------------------------------------
(* Go maps, their iteration orders, and the sorts by name.                 *)

EmptyMap == <<>>

MapPut(m, k, v) == [x \in (DOMAIN m) \cup {k} |-> IF x = k THEN v ELSE m[x]]

\* The orders in which a `range` over a map with key set S may visit it.
Orders(S) ==
    {p \in [1..Cardinality(S) -> S] : \A i, j \in 1..Cardinality(S) : i # j => p[i] # p[j]}

\* The characters of the model in byte order.
Ascii ==
    <<"!", "-", "0", "1", "2", "3", "4", "5", "6", "7", "8", "9", "<", ">",
      "A", "B", "C", "D", "E", "F", "G", "H", "I", "J", "K", "L", "M",
      "N", "O", "P", "Q", "R", "S", "T", "U", "V", "W", "X", "Y", "Z",
      "[", "]", "_",
      "a", "b", "c", "d", "e", "f", "g", "h", "i", "j", "k", "l", "m",
      "n", "o", "p", "q", "r", "s", "t", "u", "v", "w", "x", "y", "z">>

CharCode(ch) == CHOOSE i \in 1..Len(Ascii) : Ascii[i] = ch

\* Go's `<` on strings: bytewise lexicographic.
RECURSIVE StringLessFrom(_, _, _)
StringLessFrom(x, y, i) ==
    IF i > Len(y) THEN FALSE
    ELSE IF i > Len(x) THEN TRUE
    ELSE IF CharCode(x[i]) # CharCode(y[i]) THEN CharCode(x[i]) < CharCode(y[i])
    ELSE StringLessFrom(x, y, i + 1)

StringLess(x, y) == StringLessFrom(x, y, 1)

\* Less of the *List types: by Name.
Less(x, y) == StringLess(x.Name, y.Name)

RECURSIVE Insert(_, _)
Insert(sorted, x) ==
    IF sorted = <<>> THEN <<x>>
    ELSE IF Less(x, Head(sorted)) THEN <<x>> \o sorted
    ELSE <<Head(sorted)>> \o Insert(Tail(sorted), x)

\* sort.Sort of a list whose names are the keys of a map, hence distinct.
RECURSIVE Sort(_)
Sort(l) == IF l = <<>> THEN <<>> ELSE Insert(Sort(Tail(l)), Head(l))

-----------------------------------------------------------------------------
(* Enum.                                                                   *)

\* An interface{} value: nil, an int or a string.
NilVal == [t |-> "nil", i |-> 0, s |-> NoName]

IntVal(i) == [t |-> "int", i |-> i, s |-> NoName]

StrVal(s) == [t |-> "string", i |-> 0, s |-> s]

\* A *EnumValueConfig: nil, or a pointer to a config with this Value.
NilEnumValueConfig == [nil |-> TRUE, Value |-> NilVal]

EnumValueConfig(value) == [nil |-> FALSE, Value |-> value]

EnumConfig(name, values) == [Name |-> name, Values |-> values]

EnumValueDefinition(name, value) == [Name |-> name, Value |-> value]

Enum(name, config, values, valuesLookup, nameLookup, err) ==
    [kind |-> "Enum", Name |-> name, enumConfig |-> config, values |-> values,
     valuesLookup |-> valuesLookup, nameLookup |-> nameLookup, err |-> err]

\* The loop of defineEnumValues over the map, entry order[i] onwards.
RECURSIVE defineEnumValuesFrom(_, _, _, _, _)
defineEnumValuesFrom(gtName, valueMap, order, i, values) ==
    IF i > Len(order)
    THEN [values |-> Sort(values), err |-> NoErr]
    ELSE LET valueName == order[i]
             valueConfig == valueMap[valueName]
             value == EnumValueDefinition(valueName,
                          IF valueConfig.Value = NilVal THEN StrVal(valueName)
                          ELSE valueConfig.Value)
         IN  IF valueConfig.nil
             THEN [values |-> values,
                   err |-> NewFormattedError("EnumValueMustReferToObject", gtName, valueName, NilName)]
             ELSE IF assertValidName(valueName) # NoErr
             THEN [values |-> values, err |-> assertValidName(valueName)]
             ELSE defineEnumValuesFrom(gtName, valueMap, order, i + 1, Append(values, value))

defineEnumValues(gtName, valueMap, order) ==
    IF Cardinality(DOMAIN valueMap) = 0
    THEN [values |-> <<>>,
          err |-> NewFormattedError("EnumValuesMustBeObject", gtName, NoName, NoName)]
    ELSE defineEnumValuesFrom(gtName, valueMap, order, 1, <<>>)

\* `order` is the order in which the range over config.Values visits it.
NewEnum(config, order) ==
    IF assertValidName(config.Name) # NoErr
    THEN Enum(NoName, config, <<>>, EmptyMap, EmptyMap, assertValidName(config.Name))
    ELSE LET defined == defineEnumValues(config.Name, config.Values, order)
         IN  Enum(config.Name, config, defined.values, EmptyMap, EmptyMap, defined.err)

GetValues(gt) == gt.values

RECURSIVE valuesLookupFrom(_, _, _)
valuesLookupFrom(values, i, valuesLookup) ==
    IF i > Len(values) THEN valuesLookup
    ELSE valuesLookupFrom(values, i + 1, MapPut(valuesLookup, values[i].Value, values[i]))

RECURSIVE nameLookupFrom(_, _, _)
nameLookupFrom(values, i, nameLookup) ==
    IF i > Len(values) THEN nameLookup
    ELSE nameLookupFrom(values, i + 1, MapPut(nameLookup, values[i].Name, values[i]))

getValueLookupKeyedByName(gt) ==
    IF Cardinality(DOMAIN gt.valuesLookup) > 0
    THEN gt.valuesLookup
    ELSE LET byName == nameLookupFrom(GetValues(gt), 1, EmptyMap)
         IN  [v \in {StrVal(n) : n \in DOMAIN byName} |-> byName[v.s]]

\* The lookup tables as returned and as left in gt.valuesLookup / gt.nameLookup.
getValueLookup(gt) ==
    IF Cardinality(DOMAIN gt.valuesLookup) > 0
    THEN gt.valuesLookup
    ELSE valuesLookupFrom(GetValues(gt), 1, EmptyMap)

getNameLookup(gt) ==
    IF Cardinality(DOMAIN gt.nameLookup) > 0
    THEN gt.nameLookup
    ELSE nameLookupFrom(GetValues(gt), 1, EmptyMap)

\* Enum.Serialize and Enum.ParseValue: the Enum as the call leaves it, and
\* the value returned.
EnumSerialize(gt, value) ==
    LET lookup == getValueLookup(gt)
    IN  [gt |-> [gt EXCEPT !.valuesLookup = lookup],
         val |-> IF value \in DOMAIN lookup THEN StrVal(lookup[value].Name) ELSE NilVal]

EnumParseValue(gt, value) ==
    IF value.t # "string"
    THEN [gt |-> gt, val |-> NilVal]
    ELSE LET lookup == getNameLookup(gt)
         IN  [gt |-> [gt EXCEPT !.nameLookup = lookup],
              val |-> IF value.s \in DOMAIN lookup THEN lookup[value.s].Value ELSE NilVal]

-----------------------------------------------------------------------------
(* SpecEnum: one Enum, its construction and its two conversions. Enums     *)
(* share no state, so a behaviour follows a single one.                    *)

NameA == <<"A">>

NameB == <<"B">>

NameRGB == <<"R", "G", "B">>

EnumNames == {NameRGB, NameDigitFirst}

EnumValueNames == {NameA, NameB, NameDigitFirst}

InternalValues == {NilVal, IntVal(1), StrVal(NameA), StrVal(NameB)}

EnumValueConfigs == {NilEnumValueConfig} \cup {EnumValueConfig(v) : v \in InternalValues}

EnumValueConfigMaps ==
    UNION {[names -> EnumValueConfigs] :
              names \in {S \in SUBSET EnumValueNames : Cardinality(S) <= MaxEnumValues}}

\* The values a caller passes to Serialize and ParseValue.
EnumInputs == InternalValues \cup {IntVal(2)}

Enums(h) == {e \in Ptrs(h) : h[e].kind = "Enum"}

InitEnum ==
    /\ heap = <<>>
    /\ ret = NoCall
    /\ consultedAt = <<>>

DoNewEnum ==
    /\ heap = <<>>
    /\ \E name \in EnumNames, values \in EnumValueConfigMaps :
       \E order \in Orders(DOMAIN values) :
        /\ heap' = Append(heap, NewEnum(EnumConfig(name, values), order))
        /\ ret' = Call("NewEnum", NIL, NIL, Len(heap) + 1)
        /\ UNCHANGED consultedAt

DoEnumSerialize ==
    \E gt \in Enums(heap), value \in EnumInputs :
        /\ heap' = [heap EXCEPT ![gt] = EnumSerialize(heap[gt], value).gt]
        /\ ret' = Call("Serialize", gt, value, EnumSerialize(heap[gt], value).val)
        /\ UNCHANGED consultedAt

DoEnumParseValue ==
    \E gt \in Enums(heap), value \in EnumInputs :
        /\ heap' = [heap EXCEPT ![gt] = EnumParseValue(heap[gt], value).gt]
        /\ ret' = Call("ParseValue", gt, value, EnumParseValue(heap[gt], value).val)
        /\ UNCHANGED consultedAt

NextEnum == DoNewEnum \/ DoEnumSerialize \/ DoEnumParseValue

SpecEnum == InitEnum /\ [][NextEnum]_vars

-----------------------------------------------------------------------------
(* Claims settled under SpecEnum.                                          *)

\* The internal value the config declares for a value name: the configured
\* one, or the name when none is configured.
DeclaredValue(config, name) ==
    IF config.Values[name].Value = NilVal THEN StrVal(name) ELSE config.Values[name].Value

UniqueInternalValues(config) ==
    \A m, n \in DOMAIN config.Values :
        m # n => DeclaredValue(config, m) # DeclaredValue(config, n)

\* C4: for an Enum (constructed without error) whose internal values are
\* unique, in any state of its lookup tables and for every declared value,
\* ParseValue(Serialize(internalValue)) = internalValue and
\* Serialize(ParseValue(name)) = name.
C4_EnumRoundTrip ==
    \A e \in Enums(heap) :
        (heap[e].err = NoErr /\ UniqueInternalValues(heap[e].enumConfig))
        => \A name \in DOMAIN heap[e].enumConfig.Values :
             LET internal == DeclaredValue(heap[e].enumConfig, name)
                 s == EnumSerialize(heap[e], internal)
                 ps == EnumParseValue(s.gt, s.val)
                 p == EnumParseValue(heap[e], StrVal(name))
                 sp == EnumSerialize(p.gt, p.val)
             IN  /\ ps.val = internal
                 /\ sp.val = StrVal(name)

\* An Enum with two values, one defaulted to its name and one an int, after
\* a ParseValue that found the lookup tables already used by Serialize.
C4_Witness ==
    /\ ret.op = "ParseValue"
    /\ heap[ret.recv].err = NoErr
    /\ UniqueInternalValues(heap[ret.recv].enumConfig)
    /\ DOMAIN heap[ret.recv].enumConfig.Values = {NameA, NameB}
    /\ heap[ret.recv].enumConfig.Values[NameA].Value = NilVal
    /\ heap[ret.recv].enumConfig.Values[NameB].Value = IntVal(1)
    /\ DOMAIN heap[ret.recv].valuesLookup # {}
    /\ DOMAIN heap[ret.recv].nameLookup # {}
    /\ ret.arg = StrVal(NameB)
    /\ ret.val = IntVal(1)

-----------------------------------------------------------------------------
(* InputObject.                                                            *)

\* A *InputObjectFieldConfig: nil, or a pointer to a config with this Type.
NilInputObjectFieldConfig == [nil |-> TRUE, Type |-> NIL]

InputObjectFieldConfig(type) == [nil |-> FALSE, Type |-> type]

InputObjectField(name, type) == [Name |-> name, Type |-> type]

\* InputObjectConfig.Fields is an interface{}: an InputObjectConfigFieldMap
\* ("map"), an InputObjectConfigFieldMapThunk returning one ("thunk"), or
\* anything else ("nil"), which leaves the field map nil.
InputObjectConfig(name, kind, map) ==
    [Name |-> name, Fields |-> [kind |-> kind, map |-> map]]

ZeroInputObjectConfig == InputObjectConfig(NoName, "nil", EmptyMap)

InputObject(name, config, fields, err) ==
    [kind |-> "InputObject", Name |-> name, typeConfig |-> config,
     fields |-> fields, err |-> err]

\* The loop of InputObject.defineFieldMap over the map, entry order[i] onwards.
RECURSIVE inputDefineFieldMapFrom(_, _, _, _, _)
inputDefineFieldMapFrom(gtName, fieldMap, order, i, resultFieldMap) ==
    IF i > Len(order)
    THEN [fields |-> resultFieldMap, err |-> NoErr]
    ELSE LET fieldName == order[i]
             fieldConfig == fieldMap[fieldName]
         IN  IF fieldConfig.nil
             THEN inputDefineFieldMapFrom(gtName, fieldMap, order, i + 1, resultFieldMap)
             ELSE IF assertValidName(fieldName) # NoErr
             THEN inputDefineFieldMapFrom(gtName, fieldMap, order, i + 1, resultFieldMap)
             ELSE IF fieldConfig.Type = NIL
             THEN [fields |-> resultFieldMap,
                   err |-> NewFormattedError("InputFieldTypeMustBeInputType",
                                             gtName, fieldName, NilName)]
             ELSE inputDefineFieldMapFrom(gtName, fieldMap, order, i + 1,
                      MapPut(resultFieldMap, fieldName,
                             InputObjectField(fieldName, fieldConfig.Type)))

\* InputObject.defineFieldMap: the field map returned and the error left in
\* gt.err (NoErr when the call leaves gt.err as it was: nil, in NewInputObject).
inputDefineFieldMap(gtName, config, order) ==
    LET fieldMap == IF config.Fields.kind \in {"map", "thunk"}
                    THEN config.Fields.map ELSE EmptyMap
    IN  IF Cardinality(DOMAIN fieldMap) = 0
        THEN [fields |-> EmptyMap,
              err |-> NewFormattedError("FieldsMustBeObject", gtName, NoName, NoName)]
        ELSE inputDefineFieldMapFrom(gtName, fieldMap, order, 1, EmptyMap)

\* `order` is the order in which the range over the field map visits it.
NewInputObject(config, order) ==
    IF config.Name = NoName
    THEN InputObject(NoName, ZeroInputObjectConfig, EmptyMap,
                     NewFormattedError("TypeMustBeNamed", NoName, NoName, NoName))
    ELSE LET defined == inputDefineFieldMap(config.Name, config, order)
         IN  InputObject(config.Name, config, defined.fields, defined.err)

InputObjectGetFields(gt) == gt.fields

-----------------------------------------------------------------------------
(* SpecInput: InputObjects over the built-in String scalar.                *)

NameString == <<"S", "t", "r", "i", "n", "g">>

\* The built-in String scalar, which supplies all three functions.
StringConfig == ScalarConfig(NameString, SomeFn, SomeFn, SomeFn)

NameGeoPoint == <<"G", "e", "o", "P", "o", "i", "n", "t">>

NameLat == <<"l", "a", "t">>

NameLon == <<"l", "o", "n">>

InputObjectNames == {NameGeoPoint, NoName, NameDigitFirst}

InputFieldNames == {NameLat, NameLon, NameDigitFirst}

InputObjectFieldConfigs(h) ==
    {NilInputObjectFieldConfig} \cup {InputObjectFieldConfig(t) : t \in {NIL} \cup Ptrs(h)}

InputObjectConfigFieldMaps(h) ==
    UNION {[names -> InputObjectFieldConfigs(h)] :
              names \in {S \in SUBSET InputFieldNames : Cardinality(S) <= MaxInputFields}}

InputObjectConfigs(h) ==
    {InputObjectConfig(n, k, m) :
        n \in InputObjectNames, k \in {"map", "thunk"}, m \in InputObjectConfigFieldMaps(h)}
    \cup {InputObjectConfig(n, "nil", EmptyMap) : n \in InputObjectNames}

InputObjects(h) == {t \in Ptrs(h) : h[t].kind = "InputObject"}

InitInput ==
    /\ heap = <<NewScalar(StringConfig)>>
    /\ ret = NoCall
    /\ consultedAt = <<>>

DoNewInputObject ==
    /\ Cardinality(InputObjects(heap)) < MaxInputObjects
    /\ \E config \in InputObjectConfigs(heap) :
       \E order \in Orders(DOMAIN config.Fields.map) :
        /\ heap' = Append(heap, NewInputObject(config, order))
        /\ ret' = Call("NewInputObject", NIL, config, Len(heap) + 1)
        /\ UNCHANGED consultedAt

DoInputObjectGetFields ==
    \E gt \in InputObjects(heap) :
        /\ ret' = Call("InputObject.GetFields", gt, NIL, InputObjectGetFields(heap[gt]))
        /\ UNCHANGED <<heap, consultedAt>>

NextInput == DoNewInputObject \/ DoInputObjectGetFields

SpecInput == InitInput /\ [][NextInput]_vars

-----------------------------------------------------------------------------
(* Claims settled under SpecInput.                                         *)

\* C8: NewInputObject skips each invalid field entry (nil config, invalid
\* name, nil type) without aborting: after NewInputObject of a named type
\* whose config map has an entry, GetFields() holds every entry that has a
\* valid name and a non-nil type, whatever the order of the visit.
C8_InvalidEntriesSkipped ==
    (ret.op = "NewInputObject" /\ NAME_REGEXP_MatchString(ret.arg.Name)
        /\ ret.arg.Fields.kind # "nil")
    => \A n \in DOMAIN ret.arg.Fields.map :
          (/\ ~ret.arg.Fields.map[n].nil
           /\ NAME_REGEXP_MatchString(n)
           /\ ret.arg.Fields.map[n].Type # NIL)
          => n \in DOMAIN InputObjectGetFields(heap[ret.val])

\* C16: each constructor of a named type (NewScalar, NewObject,
\* NewInterface, NewUnion, NewEnum, NewInputObject) returns a value with a
\* non-nil GetError() when the configured name does not match the
\* identifier pattern.
C16_EveryTypeNameValidated ==
    (/\ ret.op \in {"NewScalar", "NewObject", "NewInterface", "NewUnion", "NewEnum",
                    "NewInputObject"}
     /\ ~NAME_REGEXP_MatchString(ret.arg.Name))
    => heap[ret.val].err # NoErr

-----------------------------------------------------------------------------
(* Field maps of Object and Interface.                                     *)

\* A *ArgumentConfig and a *FieldConfig: nil, or a pointer to a config.
NilArgumentConfig == [nil |-> TRUE, Type |-> NIL]

ArgumentConfig(type) == [nil |-> FALSE, Type |-> type]

NilFieldConfig == [nil |-> TRUE, Type |-> NIL, Args |-> EmptyMap]

FieldConfig(type, args) == [nil |-> FALSE, Type |-> type, Args |-> args]

\* A FieldConfigMap: the nil map, or a map that has been made.
NilFieldConfigMap == [nil |-> TRUE, map |-> EmptyMap]

FieldConfigMap(m) == [nil |-> FALSE, map |-> m]

Argument(name, type) == [Name |-> name, Type |-> type]

\* A FieldDefinition that does not take the Type of its config.
FieldDefinitionWithoutType(name, type, args) == [Name |-> name, Type |-> NIL, Args |-> args]

FieldDefinition(name, type, args) == [Name |-> name, Type |-> type, Args |-> args]

GetError(h, t) == h[t].err

\* The loop of defineFieldMap over field.Args, entry order[i] onwards.
RECURSIVE defineArgsFrom(_, _, _, _, _, _)
defineArgsFrom(ttypeName, fieldName, args, order, i, fieldArgs) ==
    IF i > Len(order)
    THEN [args |-> Sort(fieldArgs), err |-> NoErr]
    ELSE LET argName == order[i]
             arg == args[argName]
         IN  IF assertValidName(argName) # NoErr
             THEN [args |-> fieldArgs, err |-> assertValidName(argName)]
             ELSE IF arg.nil
             THEN [args |-> fieldArgs,
                   err |-> NewFormattedError("ArgsMustBeObject", ttypeName, fieldName, NoName)]
             ELSE IF arg.Type = NIL
             THEN [args |-> fieldArgs,
                   err |-> NewFormattedError("ArgTypeMustBeInputType", ttypeName, fieldName, argName)]
             ELSE defineArgsFrom(ttypeName, fieldName, args, order, i + 1,
                                 Append(fieldArgs, Argument(argName, arg.Type)))

\* The loop of defineFieldMap over the map, entry order[i] onwards;
\* argOrder[f] is the order of the visit of the arguments of field f.
RECURSIVE defineFieldMapFrom(_, _, _, _, _, _, _)
defineFieldMapFrom(h, ttypeName, fields, order, argOrder, i, resultFieldMap) ==
    IF i > Len(order)
    THEN [fields |-> resultFieldMap, err |-> NoErr]
    ELSE LET fieldName == order[i]
             field == fields[fieldName]
             defined == defineArgsFrom(ttypeName, fieldName, field.Args,
                                       argOrder[fieldName], 1, <<>>)
         IN  IF field.nil
             THEN defineFieldMapFrom(h, ttypeName, fields, order, argOrder, i + 1, resultFieldMap)
             ELSE IF field.Type = NIL
             THEN [fields |-> resultFieldMap,
                   err |-> NewFormattedError("FieldTypeMustBeOutputType", ttypeName, fieldName, NilName)]
             ELSE IF GetError(h, field.Type) # NoErr
             THEN [fields |-> resultFieldMap, err |-> GetError(h, field.Type)]
             ELSE IF assertValidName(fieldName) # NoErr
             THEN [fields |-> resultFieldMap, err |-> assertValidName(fieldName)]
             ELSE IF defined.err # NoErr
             THEN [fields |-> resultFieldMap, err |-> defined.err]
             ELSE defineFieldMapFrom(h, ttypeName, fields, order, argOrder, i + 1,
                      MapPut(resultFieldMap, fieldName,
                             FieldDefinition(fieldName, field.Type, defined.args)))

defineFieldMap(h, ttypeName, fields, order, argOrder) ==
    IF Cardinality(DOMAIN fields.map) = 0
    THEN [fields |-> EmptyMap,
          err |-> NewFormattedError("FieldsMustBeObject", ttypeName, NoName, NoName)]
    ELSE defineFieldMapFrom(h, ttypeName, fields.map, order, argOrder, 1, EmptyMap)

\* The orders in which defineFieldMap may visit the arguments of each field.
ArgOrders(fields) ==
    {ao \in [DOMAIN fields.map ->
                UNION {Orders(DOMAIN fields.map[f].Args) : f \in DOMAIN fields.map}] :
        \A f \in DOMAIN fields.map : ao[f] \in Orders(DOMAIN fields.map[f].Args)}

-----------------------------------------------------------------------------
(* Interface.                                                              *)

InterfaceConfig(name, fields, resolveType) ==
    [Name |-> name, Fields |-> fields, ResolveType |-> resolveType]

ZeroInterfaceConfig == InterfaceConfig(NoName, NilFieldConfigMap, NilFn)

\* possibleTypes is a map[string]bool whose values are all true: the set of
\* its keys.
Interface(name, resolveType, config, implementations, possibleTypes, err) ==
    [kind |-> "Interface", Name |-> name, ResolveType |-> resolveType,
     typeConfig |-> config, fields |-> EmptyMap,
     implementations |-> implementations, possibleTypes |-> possibleTypes, err |-> err]

NewInterface(config) ==
    IF config.Name = NoName
    THEN Interface(NoName, NilFn, ZeroInterfaceConfig, <<>>, {},
                   NewFormattedError("TypeMustBeNamed", NoName, NoName, NoName))
    ELSE IF assertValidName(config.Name) # NoErr
    THEN Interface(NoName, NilFn, ZeroInterfaceConfig, <<>>, {}, assertValidName(config.Name))
    ELSE Interface(config.Name, config.ResolveType, config, <<>>, {}, NoErr)

InterfaceGetPossibleTypes(it) == it.implementations

\* The keys put into the name set by the loop over the possible types.
PossibleTypeNames(h, possibleTypes) ==
    {h[possibleTypes[i]].Name :
        i \in {j \in 1..Len(possibleTypes) : possibleTypes[j] # NIL}}

\* IsPossibleType answering from the name set as it stands, never filling
\* it.
IsPossibleTypeWithoutFilling(h, it, ttype) ==
    IF ttype = NIL
    THEN [it |-> h[it], val |-> FALSE]
    ELSE [it |-> h[it], val |-> h[ttype].Name \in h[it].possibleTypes]

\* Interface.IsPossibleType: the Interface as the call leaves it, and the
\* value returned.
IsPossibleType(h, it, ttype) ==
    IF ttype = NIL
    THEN [it |-> h[it], val |-> FALSE]
    ELSE LET possibleTypes ==
                 IF Cardinality(h[it].possibleTypes) = 0
                 THEN PossibleTypeNames(h, InterfaceGetPossibleTypes(h[it]))
                 ELSE h[it].possibleTypes
         IN  [it |-> [h[it] EXCEPT !.possibleTypes = possibleTypes],
              val |-> h[ttype].Name \in possibleTypes]

-----------------------------------------------------------------------------
(* Object.                                                                 *)

\* ObjectConfig.Interfaces is an interface{}: an InterfacesThunk returning a
\* list ("thunk"), a []*Interface ("list"), nil ("nil"), or a value of any
\* other type ("unknown").
Interfaces(kind, list) == [kind |-> kind, list |-> list]

ObjectConfig(name, interfaces, fields, isTypeOf) ==
    [Name |-> name, Interfaces |-> interfaces, Fields |-> fields, IsTypeOf |-> isTypeOf]

ZeroObjectConfig == ObjectConfig(NoName, Interfaces("nil", <<>>), NilFieldConfigMap, NilFn)

\* A []*Interface: the nil slice, or a slice with these entries.
NilSlice == [nil |-> TRUE, list |-> <<>>]

Slice(list) == [nil |-> FALSE, list |-> list]

Object(name, isTypeOf, config, fields, interfaces, err) ==
    [kind |-> "Object", Name |-> name, IsTypeOf |-> isTypeOf, typeConfig |-> config,
     fields |-> fields, interfaces |-> interfaces, err |-> err]

\* The loop of defineInterfaces, entry i onwards.
RECURSIVE defineInterfacesFrom(_, _, _, _, _)
defineInterfacesFrom(h, ttype, interfaces, i, ifaces) ==
    IF i > Len(interfaces)
    THEN [ifaces |-> ifaces, err |-> NoErr]
    ELSE LET iface == interfaces[i]
         IN  IF iface = NIL
             THEN [ifaces |-> ifaces,
                   err |-> NewFormattedError("MayOnlyImplementInterfaceTypes",
                                             String(h, ttype), NilName, NoName)]
             ELSE IF h[iface].ResolveType.nil
             THEN [ifaces |-> ifaces,
                   err |-> NewFormattedError("InterfaceDoesNotProvideResolveType",
                                             String(h, iface), String(h, ttype), NoName)]
             ELSE defineInterfacesFrom(h, ttype, interfaces, i + 1, Append(ifaces, iface))

\* defineInterfaces without its resolveType check: every non-nil entry of
\* the list is kept.
defineInterfacesWithoutResolveTypeCheck(h, ttype, interfaces) ==
    IF \E i \in 1..Len(interfaces) : interfaces[i] = NIL
    THEN [ifaces |-> <<>>,
          err |-> NewFormattedError("MayOnlyImplementInterfaceTypes",
                                    String(h, ttype), NilName, NoName)]
    ELSE [ifaces |-> interfaces, err |-> NoErr]

defineInterfaces(h, ttype, interfaces) ==
    IF Len(interfaces) = 0
    THEN [ifaces |-> <<>>, err |-> NoErr]
    ELSE defineInterfacesFrom(h, ttype, interfaces, 1, <<>>)

\* Object.GetInterfaces: the heap as the call leaves it, the slice
\* returned, and the number of invocations of the interfaces thunk.
ObjectGetInterfaces(h, gt) ==
    LET config == h[gt].typeConfig.Interfaces
        defined == defineInterfaces(h, gt, config.list)
    IN  IF config.kind = "unknown"
        THEN [heap |-> [h EXCEPT ![gt].err =
                            NewFormattedError("UnknownObjectInterfacesType", NoName, NoName, NoName)],
              val |-> NilSlice,
              thunks |-> 0]
        ELSE [heap |-> [h EXCEPT ![gt].err = defined.err,
                                 ![gt].interfaces = defined.ifaces],
              val |-> Slice(defined.ifaces),
              thunks |-> IF config.kind = "thunk" THEN 1 ELSE 0]

\* Object.GetFields storing a new error that wraps the one defineFieldMap
\* returned.
ObjectGetFieldsWrappingError(h, gt, order, argOrder) ==
    LET defined == defineFieldMap(h, String(h, gt), h[gt].typeConfig.Fields, order, argOrder)
        err == IF defined.err = NoErr THEN NoErr
               ELSE NewFormattedError("FieldsInvalid", String(h, gt), defined.err.msg, NoName)
    IN  [heap |-> [h EXCEPT ![gt].err = err, ![gt].fields = defined.fields],
         val |-> defined.fields]

\* Object.GetFields: the heap as the call leaves it and the map returned.
ObjectGetFields(h, gt, order, argOrder) ==
    LET defined == defineFieldMap(h, String(h, gt), h[gt].typeConfig.Fields, order, argOrder)
    IN  [heap |-> [h EXCEPT ![gt].err = defined.err, ![gt].fields = defined.fields],
         val |-> defined.fields]

\* The loop of NewObject that appends objectType to the implementations of
\* each Interface of the list, entry i onwards.
RECURSIVE addImplementationToInterfaces(_, _, _, _)
addImplementationToInterfaces(h, objectType, interfaces, i) ==
    IF i > Len(interfaces) THEN h
    ELSE addImplementationToInterfaces(
             [h EXCEPT ![interfaces[i]].implementations = Append(@, objectType)],
             objectType, interfaces, i + 1)

NewObjectRegisteringLazily(h, config) ==
    IF config.Name = NoName
    THEN [heap |-> Append(h, Object(NoName, NilFn, ZeroObjectConfig, EmptyMap, <<>>,
                              NewFormattedError("TypeMustBeNamed", NoName, NoName, NoName))),
          thunks |-> 0]
    ELSE IF assertValidName(config.Name) # NoErr
    THEN [heap |-> Append(h, Object(NoName, NilFn, ZeroObjectConfig, EmptyMap, <<>>,
                              assertValidName(config.Name))),
          thunks |-> 0]
    ELSE [heap |-> Append(h, Object(config.Name, config.IsTypeOf, config, EmptyMap, <<>>, NoErr)),
          thunks |-> 0]

\* NewObject: the heap with the new Object at Len(h) + 1, and the number of
\* invocations of the interfaces thunk.
NewObject(h, config) ==
    IF config.Name = NoName
    THEN [heap |-> Append(h, Object(NoName, NilFn, ZeroObjectConfig, EmptyMap, <<>>,
                              NewFormattedError("TypeMustBeNamed", NoName, NoName, NoName))),
          thunks |-> 0]
    ELSE IF assertValidName(config.Name) # NoErr
    THEN [heap |-> Append(h, Object(NoName, NilFn, ZeroObjectConfig, EmptyMap, <<>>,
                              assertValidName(config.Name))),
          thunks |-> 0]
    ELSE LET objectType == Len(h) + 1
             got == ObjectGetInterfaces(
                        Append(h, Object(config.Name, config.IsTypeOf, config,
                                         EmptyMap, <<>>, NoErr)),
                        objectType)
         IN  IF got.val.nil
             THEN [heap |-> got.heap, thunks |-> got.thunks]
             ELSE [heap |-> addImplementationToInterfaces(got.heap, objectType, got.val.list, 1),
                   thunks |-> got.thunks]

-----------------------------------------------------------------------------
(* Spec: one Object from its construction on, over the Interfaces it may   *)
(* list. What NewObject and the accessors do to an Object depends on no    *)
(* other Object, so a behaviour follows a single one.                      *)

NameDog == <<"D", "o", "g">>

NamePet == <<"P", "e", "t">>

NameNamed == <<"N", "a", "m", "e", "d">>

NameName == <<"n", "a", "m", "e">>

InterfaceNames == {NamePet, NameNamed, NameDigitFirst}

ObjectNames == {NameDog, NoName, NameDigitFirst}

InterfacesOf(h) == {t \in Ptrs(h) : h[t].kind = "Interface"}

Objects(h) == {t \in Ptrs(h) : h[t].kind = "Object"}

InterfaceConfigs ==
    {InterfaceConfig(n, NilFieldConfigMap, rt) : n \in InterfaceNames, rt \in Fns}

\* The lists of at most MaxIfaceList entries, each nil or an Interface built
\* so far.
InterfaceLists(h) ==
    UNION {[1..k -> {NIL} \cup InterfacesOf(h)] : k \in 0..MaxIfaceList}

InterfacesConfigs(h) ==
    {Interfaces(k, l) : k \in {"thunk", "list"}, l \in InterfaceLists(h)}
    \cup {Interfaces("nil", <<>>), Interfaces("unknown", <<>>)}

\* No fields, or the single field `name: String` (String is heap[1]).
ObjectFields ==
    {NilFieldConfigMap, FieldConfigMap([f \in {NameName} |-> FieldConfig(1, EmptyMap)])}

ObjectConfigs(h) ==
    {ObjectConfig(n, i, f, p) :
        n \in ObjectNames, i \in InterfacesConfigs(h), f \in ObjectFields, p \in Fns}

Init ==
    /\ heap = <<NewScalar(StringConfig)>>
    /\ ret = NoCall
    /\ consultedAt = <<>>

DoNewInterface ==
    /\ Cardinality(InterfacesOf(heap)) < MaxInterfaces
    /\ \E config \in InterfaceConfigs :
        /\ heap' = Append(heap, NewInterface(config))
        /\ ret' = Call("NewInterface", NIL, config, Len(heap) + 1)
        /\ UNCHANGED consultedAt

DoNewObject ==
    /\ Objects(heap) = {}
    /\ \E config \in ObjectConfigs(heap) :
        /\ heap' = NewObject(heap, config).heap
        /\ ret' = CallT("NewObject", NIL, config, Len(heap) + 1, NewObject(heap, config).thunks)
        /\ UNCHANGED consultedAt

DoObjectGetInterfaces ==
    \E gt \in Objects(heap) :
        /\ heap' = ObjectGetInterfaces(heap, gt).heap
        /\ ret' = CallT("Object.GetInterfaces", gt, NIL, ObjectGetInterfaces(heap, gt).val,
                        ObjectGetInterfaces(heap, gt).thunks)
        /\ UNCHANGED consultedAt

DoObjectGetFields ==
    \E gt \in Objects(heap) :
    \E order \in Orders(DOMAIN heap[gt].typeConfig.Fields.map) :
    \E argOrder \in ArgOrders(heap[gt].typeConfig.Fields) :
        /\ heap' = ObjectGetFields(heap, gt, order, argOrder).heap
        /\ ret' = Call("Object.GetFields", gt, NIL,
                       ObjectGetFields(heap, gt, order, argOrder).val)
        /\ UNCHANGED consultedAt

Next == DoNewInterface \/ DoNewObject \/ DoObjectGetInterfaces \/ DoObjectGetFields

Spec == Init /\ [][Next]_vars

-----------------------------------------------------------------------------
(* Claims settled under Spec.                                              *)

\* The number of occurrences of x in the list l.
Count(x, l) == Cardinality({k \in 1..Len(l) : l[k] = x})

\* An entry of an interface list that defineInterfaces keeps.
Validated(h, iface) == iface # NIL /\ ~h[iface].ResolveType.nil

\* The last call was NewObject with a valid name and a list or thunk of
\* interfaces.
NewObjectListing ==
    /\ ret.op = "NewObject"
    /\ NAME_REGEXP_MatchString(ret.arg.Name)
    /\ ret.arg.Interfaces.kind \in {"list", "thunk"}

\* C2: an Object that supplies isTypeOf and lists Interfaces, some without
\* resolveType, has a nil GetError() after NewObject and is registered as an
\* implementation of each: an Interface without resolveType is an error
\* only for an Object without isTypeOf.
C2_IsTypeOfImplementsUnresolvedInterface ==
    (/\ NewObjectListing
     /\ ~ret.arg.IsTypeOf.nil
     /\ \A k \in 1..Len(ret.arg.Interfaces.list) :
           /\ ret.arg.Interfaces.list[k] # NIL
           /\ heap[ret.arg.Interfaces.list[k]].err = NoErr)
    => /\ GetError(heap, ret.val) = NoErr
       /\ \A k \in 1..Len(ret.arg.Interfaces.list) :
             Count(ret.val, InterfaceGetPossibleTypes(heap[ret.arg.Interfaces.list[k]])) >= 1

\* C3 as stated: for every Interface I (built without error) with no
\* resolveType and every Object
\* O with no isTypeOf that lists I, NewObject(O) leaves a non-nil GetError()
\* whose message names both I and O.
C3_ErrorNamesEveryUnresolvedInterface ==
    (NewObjectListing /\ ret.arg.IsTypeOf.nil)
    => \A k \in 1..Len(ret.arg.Interfaces.list) :
          LET iface == ret.arg.Interfaces.list[k]
          IN  (iface # NIL /\ heap[iface].err = NoErr /\ heap[iface].ResolveType.nil)
              => /\ GetError(heap, ret.val) # NoErr
                 /\ GetError(heap, ret.val).msg = "InterfaceDoesNotProvideResolveType"
                 /\ GetError(heap, ret.val).a = String(heap, iface)
                 /\ GetError(heap, ret.val).b = ret.arg.Name

\* C3, amended: for every Object O with a valid name and no isTypeOf that
\* lists an Interface with no resolveType, NewObject(O) leaves a non-nil
\* GetError(); when the first entry of the list that is nil or lacks
\* resolveType is the Interface I, the message names both I and O.
C3_ErrorNamesFirstUnresolvedInterface ==
    (NewObjectListing /\ ret.arg.IsTypeOf.nil)
    => \A k \in 1..Len(ret.arg.Interfaces.list) :
          LET iface == ret.arg.Interfaces.list[k]
          IN  (iface # NIL /\ heap[iface].ResolveType.nil)
              => /\ GetError(heap, ret.val) # NoErr
                 /\ (\A j \in 1..(k - 1) : Validated(heap, ret.arg.Interfaces.list[j]))
                    => /\ GetError(heap, ret.val).msg = "InterfaceDoesNotProvideResolveType"
                       /\ GetError(heap, ret.val).a = String(heap, iface)
                       /\ GetError(heap, ret.val).b = ret.arg.Name

\* An Object without isTypeOf listing a validated Interface and then one
\* with a valid name and no resolveType, whose error names the latter.
C3_Witness ==
    /\ NewObjectListing
    /\ ret.arg.IsTypeOf.nil
    /\ Len(ret.arg.Interfaces.list) = 2
    /\ Validated(heap, ret.arg.Interfaces.list[1])
    /\ ret.arg.Interfaces.list[2] # NIL
    /\ heap[ret.arg.Interfaces.list[2]].ResolveType.nil
    /\ heap[ret.arg.Interfaces.list[2]].Name = NameNamed
    /\ GetError(heap, ret.val).a = NameNamed
    /\ GetError(heap, ret.val).b = NameDog

\* C7 as stated: after NewObject(O) and any sequence of O.GetInterfaces()
\* and O.GetFields() calls, O occurs exactly once in GetPossibleTypes() of
\* each valid Interface it lists once; and NewObject invokes an interfaces
\* thunk itself.
C7_RegisteredOnceInEveryValidInterface ==
    /\ \A o \in Objects(heap) : \A iface \in InterfacesOf(heap) :
          (/\ heap[o].Name # NoName
           /\ Count(iface, heap[o].typeConfig.Interfaces.list) = 1
           /\ Validated(heap, iface))
          => Count(o, InterfaceGetPossibleTypes(heap[iface])) = 1
    /\ (NewObjectListing /\ ret.arg.Interfaces.kind = "thunk") => ret.thunks = 1

\* C7, amended: after NewObject(O), O's name valid, and any sequence of
\* O.GetInterfaces() and O.GetFields() calls, O occurs exactly once in
\* GetPossibleTypes() of each Interface with resolveType that it lists once
\* and before which its list has no entry that is nil or lacks resolveType,
\* and does not occur in those listed after such an entry; and NewObject
\* invokes an interfaces thunk itself, once.
C7_RegisteredOnceInValidatedPrefix ==
    /\ \A o \in Objects(heap) : \A iface \in InterfacesOf(heap) :
          LET list == heap[o].typeConfig.Interfaces.list
          IN  (/\ heap[o].Name # NoName
               /\ Count(iface, list) = 1
               /\ Validated(heap, iface))
              => Count(o, InterfaceGetPossibleTypes(heap[iface])) =
                    IF \A k \in 1..Len(list) :
                          list[k] = iface => \A j \in 1..(k - 1) : Validated(heap, list[j])
                    THEN 1 ELSE 0
    /\ (NewObjectListing /\ ret.arg.Interfaces.kind = "thunk") => ret.thunks = 1

\* An Object built from a thunk of two validated Interfaces, after a later
\* GetInterfaces() call that invoked the thunk again: it is in each once.
C7_Witness ==
    /\ ret.op = "Object.GetInterfaces"
    /\ ret.thunks = 1
    /\ heap[ret.recv].fields # EmptyMap
    /\ Len(heap[ret.recv].typeConfig.Interfaces.list) = 2
    /\ \A k \in 1..2 :
          LET iface == heap[ret.recv].typeConfig.Interfaces.list[k]
          IN  /\ Validated(heap, iface)
              /\ Count(iface, heap[ret.recv].typeConfig.Interfaces.list) = 1
              /\ Count(ret.recv, InterfaceGetPossibleTypes(heap[iface])) = 1

\* NewObject(O) left a construction error on the Object o: its name was
\* refused (the Object then keeps the zero name), or its Interfaces value
\* was of an unknown type, or its interface list has an entry that is nil
\* or lacks resolveType.
ConstructionFailed(h, o) ==
    \/ h[o].Name = NoName
    \/ h[o].typeConfig.Interfaces.kind = "unknown"
    \/ \E k \in 1..Len(h[o].typeConfig.Interfaces.list) :
          ~Validated(h, h[o].typeConfig.Interfaces.list[k])

\* C18: an Object whose GetError() was non-nil after NewObject (invalid
\* name, or interface-list validation failed) has a non-nil GetError()
\* after any subsequent sequence of GetFields() and GetInterfaces() calls.
C18_ConstructionErrorNeverLost ==
    \A o \in Objects(heap) : ConstructionFailed(heap, o) => GetError(heap, o) # NoErr

\* C19: if NewObject(O) ends with a non-nil GetError() because a listed
\* interface is nil or lacks resolveType, O is absent from
\* GetPossibleTypes() of every Interface in its list, those listed before
\* the failing one included.
C19_FailedObjectRegisteredNowhere ==
    (/\ NewObjectListing
     /\ GetError(heap, ret.val) # NoErr
     /\ \E k \in 1..Len(ret.arg.Interfaces.list) : ~Validated(heap, ret.arg.Interfaces.list[k]))
    => \A k \in 1..Len(ret.arg.Interfaces.list) :
          ret.arg.Interfaces.list[k] # NIL
          => Count(ret.val, InterfaceGetPossibleTypes(heap[ret.arg.Interfaces.list[k]])) = 0

-----------------------------------------------------------------------------
(* SpecReg: several Objects registering into Interfaces, and the           *)
(* possible-type name sets of the Interfaces.                              *)

NameCat == <<"C", "a", "t">>

RegObjectNames == {NameDog, NameCat}

RegObjectConfigs(h) ==
    {ObjectConfig(n, Interfaces("list", l),
                  FieldConfigMap([f \in {NameName} |-> FieldConfig(1, EmptyMap)]), SomeFn) :
        n \in RegObjectNames,
        l \in UNION {[1..k -> InterfacesOf(h)] : k \in 0..1}}

RegInterfaceConfigs == {InterfaceConfig(NamePet, NilFieldConfigMap, rt) : rt \in Fns}

DoNewInterfaceReg ==
    /\ Cardinality(InterfacesOf(heap)) < MaxRegInterfaces
    /\ \E config \in RegInterfaceConfigs :
        /\ heap' = Append(heap, NewInterface(config))
        /\ ret' = Call("NewInterface", NIL, config, Len(heap) + 1)
        /\ UNCHANGED consultedAt

DoNewObjectReg ==
    /\ Cardinality(Objects(heap)) < MaxRegObjects
    /\ \E config \in RegObjectConfigs(heap) :
        /\ heap' = NewObject(heap, config).heap
        /\ ret' = CallT("NewObject", NIL, config, Len(heap) + 1, NewObject(heap, config).thunks)
        /\ UNCHANGED consultedAt

DoIsPossibleType ==
    \E it \in InterfacesOf(heap), ttype \in {NIL} \cup Objects(heap) :
        /\ heap' = [heap EXCEPT ![it] = IsPossibleType(heap, it, ttype).it]
        /\ ret' = Call("IsPossibleType", it, ttype, IsPossibleType(heap, it, ttype).val)
        /\ consultedAt' =
              IF ttype = NIL THEN consultedAt
              ELSE LET first == IF it \in DOMAIN consultedAt
                                THEN consultedAt[it].first ELSE Len(heap)
                       filled == IF it \in DOMAIN consultedAt /\ consultedAt[it].filled # 0
                                 THEN consultedAt[it].filled
                                 ELSE IF Len(InterfaceGetPossibleTypes(heap[it])) # 0
                                 THEN Len(heap) ELSE 0
                   IN  MapPut(consultedAt, it, [first |-> first, filled |-> filled])

DoGetPossibleTypes ==
    \E it \in InterfacesOf(heap) :
        /\ ret' = Call("GetPossibleTypes", it, NIL, InterfaceGetPossibleTypes(heap[it]))
        /\ UNCHANGED <<heap, consultedAt>>

NextReg == DoNewInterfaceReg \/ DoNewObjectReg \/ DoIsPossibleType \/ DoGetPossibleTypes

SpecReg == Init /\ [][NextReg]_vars

-----------------------------------------------------------------------------
(* Claims settled under SpecReg.                                           *)

\* C6: once the possible-type name set of an Interface has been consulted
\* by IsPossibleType, an Object constructed afterwards that lists the
\* Interface (and shares its name with no other Object) does not appear:
\* every later IsPossibleType call returns false for it, whatever had
\* registered at the time of the first call, nothing included.
C6_LateObjectNeverPossible ==
    (/\ ret.op = "IsPossibleType"
     /\ ret.arg # NIL
     /\ ret.recv \in DOMAIN consultedAt
     /\ ret.arg > consultedAt[ret.recv].first
     /\ Count(ret.recv, heap[ret.arg].typeConfig.Interfaces.list) >= 1
     /\ \A o \in Objects(heap) : o # ret.arg => heap[o].Name # heap[ret.arg].Name)
    => ret.val = FALSE

-----------------------------------------------------------------------------
(* Union, and the resolution of a runtime value to an Object by the        *)
(* isTypeOf predicates of the possible types.                              *)

UnionConfig(name, types, resolveType) ==
    [Name |-> name, Types |-> types, ResolveType |-> resolveType]

ZeroUnionConfig == UnionConfig(NoName, <<>>, NilFn)

Union(name, resolveType, config, types, possibleTypes, err) ==
    [kind |-> "Union", Name |-> name, ResolveType |-> resolveType, typeConfig |-> config,
     types |-> types, possibleTypes |-> possibleTypes, err |-> err]

\* The loop of NewUnion over config.Types, entry i onwards: the error it
\* stops with, NoErr when it runs to the end.  ut is the Union under
\* construction, whose name the messages print.
RECURSIVE NewUnionTypesFrom(_, _, _, _)
NewUnionTypesFrom(h, ut, types, i) ==
    IF i > Len(types)
    THEN NoErr
    ELSE LET ttype == types[i]
         IN  IF ttype = NIL
             THEN NewFormattedError("MayOnlyContainObjectTypes", ut.Name, NilName, NoName)
             ELSE IF ut.ResolveType.nil /\ h[ttype].IsTypeOf.nil
             THEN NewFormattedError("UnionDoesNotProvideResolveType",
                                    ut.Name, String(h, ttype), NoName)
             ELSE NewUnionTypesFrom(h, ut, types, i + 1)

\* NewUnion asking every member for isTypeOf, whether or not the Union has
\* a resolveType.
NewUnionRequiringIsTypeOf(h, config) ==
    IF Len(config.Types) = 0
    THEN Union(config.Name, config.ResolveType, ZeroUnionConfig, <<>>, {},
               NewFormattedError("MustProvideArrayOfTypes", config.Name, NoName, NoName))
    ELSE IF \E i \in 1..Len(config.Types) :
               config.Types[i] = NIL \/ h[config.Types[i]].IsTypeOf.nil
    THEN Union(config.Name, config.ResolveType, ZeroUnionConfig, <<>>, {},
               NewFormattedError("UnionDoesNotProvideResolveType", config.Name, NoName, NoName))
    ELSE Union(config.Name, config.ResolveType, config, config.Types, {}, NoErr)

NewUnion(h, config) ==
    IF config.Name = NoName
    THEN Union(NoName, NilFn, ZeroUnionConfig, <<>>, {},
               NewFormattedError("TypeMustBeNamed", NoName, NoName, NoName))
    ELSE IF assertValidName(config.Name) # NoErr
    THEN Union(NoName, NilFn, ZeroUnionConfig, <<>>, {}, assertValidName(config.Name))
    ELSE LET objectType == Union(config.Name, config.ResolveType, ZeroUnionConfig, <<>>, {}, NoErr)
         IN  IF Len(config.Types) = 0
             THEN [objectType EXCEPT
                      !.err = NewFormattedError("MustProvideArrayOfTypes",
                                                config.Name, NoName, NoName)]
             ELSE IF NewUnionTypesFrom(h, objectType, config.Types, 1) # NoErr
             THEN [objectType EXCEPT
                      !.err = NewUnionTypesFrom(h, objectType, config.Types, 1)]
             ELSE [objectType EXCEPT !.types = config.Types, !.typeConfig = config]

UnionGetPossibleTypes(ut) == ut.types

\* Union.IsPossibleType: the Union as the call leaves it, and the value
\* returned.
UnionIsPossibleType(h, ut, ttype) ==
    IF ttype = NIL
    THEN [ut |-> h[ut], val |-> FALSE]
    ELSE LET possibleTypes ==
                 IF Cardinality(h[ut].possibleTypes) = 0
                 THEN PossibleTypeNames(h, UnionGetPossibleTypes(h[ut]))
                 ELSE h[ut].possibleTypes
         IN  [ut |-> [h[ut] EXCEPT !.possibleTypes = possibleTypes],
              val |-> h[ttype].Name \in possibleTypes]

\* abstractType.GetPossibleTypes(), dispatched on the dynamic type.
GetPossibleTypes(h, abstractType) ==
    IF h[abstractType].kind = "Union"
    THEN UnionGetPossibleTypes(h[abstractType])
    ELSE InterfaceGetPossibleTypes(h[abstractType])

\* The loop of getTypeOf, entry i onwards.
RECURSIVE getTypeOfFrom(_, _, _, _)
getTypeOfFrom(h, value, possibleTypes, i) ==
    IF i > Len(possibleTypes)
    THEN NIL
    ELSE LET possibleType == possibleTypes[i]
         IN  IF h[possibleType].IsTypeOf.nil
             THEN getTypeOfFrom(h, value, possibleTypes, i + 1)
             ELSE IF value \in h[possibleType].IsTypeOf.accepts
             THEN possibleType
             ELSE getTypeOfFrom(h, value, possibleTypes, i + 1)

\* The loop run from the far end: the last possible type that accepts.
RECURSIVE getTypeOfDownFrom(_, _, _, _)
getTypeOfDownFrom(h, value, possibleTypes, i) ==
    IF i < 1
    THEN NIL
    ELSE IF ~h[possibleTypes[i]].IsTypeOf.nil /\ value \in h[possibleTypes[i]].IsTypeOf.accepts
    THEN possibleTypes[i]
    ELSE getTypeOfDownFrom(h, value, possibleTypes, i - 1)

getTypeOfLastMatch(h, value, abstractType) ==
    getTypeOfDownFrom(h, value, GetPossibleTypes(h, abstractType),
                      Len(GetPossibleTypes(h, abstractType)))

getTypeOf(h, value, abstractType) ==
    getTypeOfFrom(h, value, GetPossibleTypes(h, abstractType), 1)

\* GetObjectType: resolved is what the resolveType callback of the host
\* returns when there is one.
InterfaceGetObjectType(h, it, value, resolved) ==
    IF ~h[it].ResolveType.nil THEN resolved ELSE getTypeOf(h, value, it)

UnionGetObjectType(h, ut, value, resolved) ==
    IF ~h[ut].ResolveType.nil THEN resolved ELSE getTypeOf(h, value, ut)

-----------------------------------------------------------------------------
(* SpecResolve: Objects with isTypeOf predicates, one Interface and one    *)
(* Union at most (abstract types share no state with one another), and     *)
(* GetObjectType on them.                                                  *)

Values == {1, 2}

IsTypeOfFn(accepts) == [nil |-> FALSE, accepts |-> accepts]

IsTypeOfFns == {NilFn, IsTypeOfFn({1}), IsTypeOfFn({1, 2})}

Unions(h) == {t \in Ptrs(h) : h[t].kind = "Union"}

ResolveObjectConfigs(h) ==
    {ObjectConfig(NameDog, Interfaces("list", l),
                  FieldConfigMap([f \in {NameName} |-> FieldConfig(1, EmptyMap)]), isTypeOf) :
        isTypeOf \in IsTypeOfFns,
        l \in UNION {[1..k -> InterfacesOf(h)] : k \in 0..1}}

NameSearchResult == <<"S", "R">>

UnionConfigs(h) ==
    {UnionConfig(NameSearchResult, types, rt) :
        types \in UNION {[1..k -> {NIL} \cup Objects(h)] : k \in 0..MaxMembers},
        rt \in Fns}

DoNewInterfaceResolve ==
    /\ InterfacesOf(heap) = {}
    /\ \E config \in RegInterfaceConfigs :
        /\ heap' = Append(heap, NewInterface(config))
        /\ ret' = Call("NewInterface", NIL, config, Len(heap) + 1)
        /\ UNCHANGED consultedAt

DoNewObjectResolve ==
    /\ Cardinality(Objects(heap)) < MaxResolveObjects
    /\ \E config \in ResolveObjectConfigs(heap) :
        /\ heap' = NewObject(heap, config).heap
        /\ ret' = CallT("NewObject", NIL, config, Len(heap) + 1, NewObject(heap, config).thunks)
        /\ UNCHANGED consultedAt

DoNewUnion ==
    /\ Unions(heap) = {}
    /\ \E config \in UnionConfigs(heap) :
        /\ heap' = Append(heap, NewUnion(heap, config))
        /\ ret' = Call("NewUnion", NIL, config, Len(heap) + 1)
        /\ UNCHANGED consultedAt

DoInterfaceGetObjectType ==
    \E it \in InterfacesOf(heap), value \in Values, resolved \in {NIL} \cup Objects(heap) :
        /\ ret' = Call("Interface.GetObjectType", it, value,
                       InterfaceGetObjectType(heap, it, value, resolved))
        /\ UNCHANGED <<heap, consultedAt>>

DoUnionGetObjectType ==
    \E ut \in Unions(heap), value \in Values, resolved \in {NIL} \cup Objects(heap) :
        /\ ret' = Call("Union.GetObjectType", ut, value,
                       UnionGetObjectType(heap, ut, value, resolved))
        /\ UNCHANGED <<heap, consultedAt>>

NextResolve ==
    \/ DoNewInterfaceResolve
    \/ DoNewObjectResolve
    \/ DoNewUnion
    \/ DoInterfaceGetObjectType
    \/ DoUnionGetObjectType

SpecResolve == Init /\ [][NextResolve]_vars

-----------------------------------------------------------------------------
(* Claims settled under SpecResolve.                                       *)

\* The possible types of an abstract type in declaration order: the Types
\* list a Union was configured with, the Objects registered into an
\* Interface in the order they were built.
DeclaredPossibleTypes(h, at) ==
    IF h[at].kind = "Union" THEN h[at].typeConfig.Types ELSE h[at].implementations

Accepting(h, at, value) ==
    {i \in 1..Len(DeclaredPossibleTypes(h, at)) :
        /\ ~h[DeclaredPossibleTypes(h, at)[i]].IsTypeOf.nil
        /\ value \in h[DeclaredPossibleTypes(h, at)[i]].IsTypeOf.accepts}

\* C5: GetObjectType on an Interface or Union that has no resolveType
\* returns the possible type earliest in declaration order among those
\* that have an isTypeOf predicate accepting the value (possible types
\* without a predicate are passed over), and nil when there is none.
C5_FirstAcceptingPossibleType ==
    (/\ ret.op \in {"Interface.GetObjectType", "Union.GetObjectType"}
     /\ heap[ret.recv].ResolveType.nil)
    => IF Accepting(heap, ret.recv, ret.arg) = {}
       THEN ret.val = NIL
       ELSE \E i \in Accepting(heap, ret.recv, ret.arg) :
               /\ \A j \in Accepting(heap, ret.recv, ret.arg) : i <= j
               /\ ret.val = DeclaredPossibleTypes(heap, ret.recv)[i]

\* A Union without resolveType whose two distinct members both accept the
\* value: the first is returned.
C5_Witness ==
    /\ ret.op = "Union.GetObjectType"
    /\ heap[ret.recv].ResolveType.nil
    /\ Len(heap[ret.recv].typeConfig.Types) = 2
    /\ heap[ret.recv].typeConfig.Types[1] # heap[ret.recv].typeConfig.Types[2]
    /\ Accepting(heap, ret.recv, ret.arg) = {1, 2}
    /\ ret.val = heap[ret.recv].typeConfig.Types[1]

\* C11: NewUnion records a construction error when the member list is
\* empty, when a member is nil, or when the Union has no resolveType and a
\* member has no isTypeOf; a Union with resolveType, a valid name and a
\* non-empty list of non-nil members, with or without isTypeOf, is built
\* without error and GetPossibleTypes() returns the members in declaration
\* order.
C11_UnionConstruction ==
    ret.op = "NewUnion"
    => LET types == ret.arg.Types
           ut == heap[ret.val]
       IN  /\ Len(types) = 0 => GetError(heap, ret.val) # NoErr
           /\ (\E i \in 1..Len(types) : types[i] = NIL) => GetError(heap, ret.val) # NoErr
           /\ (/\ ret.arg.ResolveType.nil
               /\ \E i \in 1..Len(types) : types[i] # NIL /\ heap[types[i]].IsTypeOf.nil)
              => GetError(heap, ret.val) # NoErr
           /\ (/\ ~ret.arg.ResolveType.nil
               /\ NAME_REGEXP_MatchString(ret.arg.Name)
               /\ Len(types) > 0
               /\ \A i \in 1..Len(types) : types[i] # NIL)
              => /\ GetError(heap, ret.val) = NoErr
                 /\ UnionGetPossibleTypes(ut) = types

\* A Union with resolveType built without error from two distinct members,
\* the first of them without isTypeOf.
C11_Witness ==
    /\ ret.op = "NewUnion"
    /\ ~ret.arg.ResolveType.nil
    /\ Len(ret.arg.Types) = 2
    /\ ret.arg.Types[1] # NIL /\ ret.arg.Types[2] # NIL
    /\ ret.arg.Types[1] # ret.arg.Types[2]
    /\ heap[ret.arg.Types[1]].IsTypeOf.nil
    /\ GetError(heap, ret.val) = NoErr
    /\ UnionGetPossibleTypes(heap[ret.val]) = ret.arg.Types

-----------------------------------------------------------------------------
(* SpecAbstract: the Objects of SpecReg with either its Interfaces or one   *)
(* Union over the Objects built so far, and both accessors of the possible *)
(* types. The name set of an abstract type depends on no other abstract    *)
(* type, so a behaviour follows Interfaces or a Union, not both.           *)

DoNewInterfaceAbstract == Unions(heap) = {} /\ DoNewInterfaceReg

DoNewUnionAbstract ==
    /\ Unions(heap) = {}
    /\ InterfacesOf(heap) = {}
    /\ \E config \in UnionConfigs(heap) :
        /\ heap' = Append(heap, NewUnion(heap, config))
        /\ ret' = Call("NewUnion", NIL, config, Len(heap) + 1)
        /\ UNCHANGED consultedAt

DoUnionIsPossibleType ==
    \E ut \in Unions(heap), ttype \in {NIL} \cup Objects(heap) :
        /\ heap' = [heap EXCEPT ![ut] = UnionIsPossibleType(heap, ut, ttype).ut]
        /\ ret' = Call("Union.IsPossibleType", ut, ttype, UnionIsPossibleType(heap, ut, ttype).val)
        /\ UNCHANGED consultedAt

DoUnionGetPossibleTypes ==
    \E ut \in Unions(heap) :
        /\ ret' = Call("Union.GetPossibleTypes", ut, NIL, UnionGetPossibleTypes(heap[ut]))
        /\ UNCHANGED <<heap, consultedAt>>

NextAbstract ==
    \/ DoNewInterfaceAbstract
    \/ DoNewObjectReg
    \/ DoIsPossibleType
    \/ DoGetPossibleTypes
    \/ DoNewUnionAbstract
    \/ DoUnionIsPossibleType
    \/ DoUnionGetPossibleTypes

SpecAbstract == Init /\ [][NextAbstract]_vars

\* Some element of the possible types of the abstract type at has the name
\* of the Object o.
NamedAmongPossibleTypes(h, at, o) ==
    \E i \in 1..Len(GetPossibleTypes(h, at)) :
        /\ GetPossibleTypes(h, at)[i] # NIL
        /\ h[GetPossibleTypes(h, at)[i]].Name = h[o].Name

-----------------------------------------------------------------------------
(* The input/output classification of types, and AddFieldConfig.           *)

IsInputType(h, ttype) ==
    LET Named == GetNamed(h, ttype)
    IN  Named \in Ptrs(h) /\ h[Named].kind \in {"Scalar", "Enum", "InputObject"}

IsOutputType(h, ttype) ==
    LET Named == GetNamed(h, ttype)
    IN  Named \in Ptrs(h) /\ h[Named].kind \in {"Scalar", "Object", "Interface", "Union", "Enum"}

\* Object.AddFieldConfig: the heap as the call leaves it, and whether the
\* call panicked (assignment to an entry of a nil map).
ObjectAddFieldConfig(h, gt, fieldName, fieldConfig) ==
    IF fieldName = NoName \/ fieldConfig.nil
    THEN [heap |-> h, panic |-> FALSE]
    ELSE IF h[gt].typeConfig.Fields.nil
    THEN [heap |-> h, panic |-> TRUE]
    ELSE [heap |-> [h EXCEPT ![gt].typeConfig.Fields.map = MapPut(@, fieldName, fieldConfig)],
          panic |-> FALSE]

-----------------------------------------------------------------------------
(* SpecFields: one Object and its field map, over the String scalar, a     *)
(* List that carries a construction error and an InputObject; fields and   *)
(* arguments that refer to the Object itself are supplied after            *)
(* construction by AddFieldConfig.                                         *)

NamePerson == <<"P", "e", "r", "s", "o", "n">>

NameBestFriend == <<"b", "e", "s", "t", "F", "r", "i", "e", "n", "d">>

NameId == <<"i", "d">>

FieldNames == {NameName, NameBestFriend, NameDigitFirst}

FieldArgNames == {NameId, NameDigitFirst}

\* heap[1] is String, heap[2] the List with an error, heap[3] the InputObject.
InitFields ==
    /\ heap = <<NewScalar(StringConfig),
                NewList(<<NewScalar(StringConfig)>>, NIL),
                NewInputObject(InputObjectConfig(NameGeoPoint, "map",
                                   [f \in {NameLat} |-> InputObjectFieldConfig(1)]),
                               <<NameLat>>)>>
    /\ ret = NoCall
    /\ consultedAt = <<>>

ArgumentConfigs == {NilArgumentConfig, ArgumentConfig(NIL), ArgumentConfig(1)}

\* No argument, or a single one.
FieldConfigArguments ==
    {EmptyMap} \cup {[a \in {n} |-> c] : n \in FieldArgNames, c \in ArgumentConfigs}

FieldConfigs ==
    {NilFieldConfig}
    \cup {FieldConfig(t, EmptyMap) : t \in {NIL, 2, 3}}
    \cup {FieldConfig(1, args) : args \in FieldConfigArguments}

FieldConfigMaps ==
    {NilFieldConfigMap}
    \cup {FieldConfigMap(m) :
            m \in UNION {[S -> FieldConfigs] :
                            S \in {T \in SUBSET FieldNames : Cardinality(T) <= MaxObjectFields}}}

FieldsObjectConfigs ==
    {ObjectConfig(NamePerson, Interfaces("nil", <<>>), f, NilFn) : f \in FieldConfigMaps}
    \cup {ObjectConfig(NameDigitFirst, Interfaces("nil", <<>>), NilFieldConfigMap, NilFn)}

\* The configs handed to AddFieldConfig on the Object gt.
AddedFieldConfigs(gt) ==
    {NilFieldConfig,
     FieldConfig(gt, EmptyMap),
     FieldConfig(1, [a \in {NameId} |-> ArgumentConfig(gt)])}

DoNewObjectFields ==
    /\ Objects(heap) = {}
    /\ \E config \in FieldsObjectConfigs :
        /\ heap' = NewObject(heap, config).heap
        /\ ret' = CallT("NewObject", NIL, config, Len(heap) + 1, NewObject(heap, config).thunks)
        /\ UNCHANGED consultedAt

DoObjectAddFieldConfig ==
    \E gt \in Objects(heap), fieldName \in {NoName, NameBestFriend} :
    \E fieldConfig \in AddedFieldConfigs(gt) :
        /\ heap' = ObjectAddFieldConfig(heap, gt, fieldName, fieldConfig).heap
        /\ ret' = Call("Object.AddFieldConfig", gt, <<fieldName, fieldConfig>>,
                       [panic |-> ObjectAddFieldConfig(heap, gt, fieldName, fieldConfig).panic])
        /\ UNCHANGED consultedAt

NextFields == DoNewObjectFields \/ DoObjectAddFieldConfig \/ DoObjectGetFields

SpecFields == InitFields /\ [][NextFields]_vars

-----------------------------------------------------------------------------
(* Claims settled under SpecFields.                                        *)

\* The Object o is configured as Person{name: String, bestFriend: Person},
\* the type of bestFriend being o itself.
PersonConfigured(h, o) ==
    /\ h[o].Name = NamePerson
    /\ h[o].typeConfig.Fields =
          FieldConfigMap([f \in {NameName, NameBestFriend} |->
                             IF f = NameName THEN FieldConfig(1, EmptyMap)
                             ELSE FieldConfig(o, EmptyMap)])

\* C12: for Person{name: String, bestFriend: Person}, the bestFriend field
\* supplied after construction with the Person being defined as its type,
\* a GetFields() call on the Person, which carries no error, returns both
\* fields, bestFriend's type being the Person itself, and leaves GetError()
\* nil; the call does not descend into the field types.
C12_SelfReferentialObjectBuilds ==
    [][(/\ ret'.op = "Object.GetFields"
        /\ PersonConfigured(heap, ret'.recv)
        /\ GetError(heap, ret'.recv) = NoErr)
       => /\ DOMAIN ret'.val = {NameName, NameBestFriend}
          /\ ret'.val[NameName].Type = 1
          /\ ret'.val[NameBestFriend].Type = ret'.recv
          /\ heap'[ret'.recv].fields = ret'.val
          /\ GetError(heap', ret'.recv) = NoErr]_vars

\* GetFields() has returned name and bestFriend for the self-referential
\* Person.
C12_Witness ==
    /\ ret.op = "Object.GetFields"
    /\ PersonConfigured(heap, ret.recv)
    /\ DOMAIN ret.val = {NameName, NameBestFriend}
    /\ ret.val[NameBestFriend].Type = ret.recv
    /\ GetError(heap, ret.recv) = NoErr

\* The entries of a field map whose config is non-nil and whose type
\* carries a construction error.
ErroredTypeEntries(h, fields) ==
    {f \in DOMAIN fields.map :
        /\ ~fields.map[f].nil
        /\ fields.map[f].Type # NIL
        /\ GetError(h, fields.map[f].Type) # NoErr}

\* The entries of a field map in which defineFieldMap finds no fault: a nil
\* config, or a typed field with a valid name whose arguments have valid
\* names and types.
FaultlessEntries(h, fields) ==
    {f \in DOMAIN fields.map :
        \/ fields.map[f].nil
        \/ /\ fields.map[f].Type # NIL
           /\ GetError(h, fields.map[f].Type) = NoErr
           /\ NAME_REGEXP_MatchString(f)
           /\ \A a \in DOMAIN fields.map[f].Args :
                 /\ NAME_REGEXP_MatchString(a)
                 /\ ~fields.map[f].Args[a].nil
                 /\ fields.map[f].Args[a].Type # NIL}

\* C13 as stated: whenever a field of an Object references a type that
\* carries a construction error, GetFields() leaves on the Object an error
\* that is the error value of such a type, unchanged.
C13_ChildErrorForwardedVerbatim ==
    [][(/\ ret'.op = "Object.GetFields"
        /\ ErroredTypeEntries(heap, heap[ret'.recv].typeConfig.Fields) # {})
       => LET fields == heap[ret'.recv].typeConfig.Fields
          IN  /\ GetError(heap', ret'.recv) # NoErr
              /\ \E f \in ErroredTypeEntries(heap, fields) :
                    GetError(heap', ret'.recv) = GetError(heap, fields.map[f].Type)]_vars

\* C13, amended: whenever a field of an Object references a type that
\* carries a construction error, GetFields() leaves a non-nil error on the
\* Object; when the map has no other faulty entry, that error is the error
\* value of such a type, unchanged.
C13_ChildErrorForwardedWhenOnlyFault ==
    [][(/\ ret'.op = "Object.GetFields"
        /\ ErroredTypeEntries(heap, heap[ret'.recv].typeConfig.Fields) # {})
       => LET fields == heap[ret'.recv].typeConfig.Fields
          IN  /\ GetError(heap', ret'.recv) # NoErr
              /\ (DOMAIN fields.map =
                     ErroredTypeEntries(heap, fields) \cup FaultlessEntries(heap, fields))
                 => \E f \in ErroredTypeEntries(heap, fields) :
                       GetError(heap', ret'.recv) = GetError(heap, fields.map[f].Type)]_vars

\* GetFields() on an Object with a faultless field and a field whose type
\* is the List built over nil has left the List's error on the Object.
C13_Witness ==
    /\ ret.op = "Object.GetFields"
    /\ ErroredTypeEntries(heap, heap[ret.recv].typeConfig.Fields) # {}
    /\ \E f \in FaultlessEntries(heap, heap[ret.recv].typeConfig.Fields) :
          ~heap[ret.recv].typeConfig.Fields.map[f].nil
    /\ \E f \in DOMAIN heap[ret.recv].typeConfig.Fields.map :
          /\ heap[ret.recv].typeConfig.Fields.map[f].Type = 2
          /\ GetError(heap, ret.recv) = GetError(heap, 2)
    /\ GetError(heap, ret.recv).msg = "CanOnlyCreateListOf"

\* C14: GetFields() records an error whenever some field's type is not an
\* Output type (an InputObject, say) or some argument's type is not an
\* Input type (an Object, say), not only when the type is nil.
C14_FieldAndArgumentTypesClassified ==
    ret.op = "Object.GetFields"
    => LET fields == heap[ret.recv].typeConfig.Fields.map
       IN  (\E f \in DOMAIN fields :
               /\ ~fields[f].nil
               /\ \/ fields[f].Type # NIL /\ ~IsOutputType(heap, fields[f].Type)
                  \/ \E a \in DOMAIN fields[f].Args :
                        /\ ~fields[f].Args[a].nil
                        /\ fields[f].Args[a].Type # NIL
                        /\ ~IsInputType(heap, fields[f].Args[a].Type))
           => GetError(heap, ret.recv) # NoErr

\* C17: whenever GetFields() records an error, the field map it returns
\* holds no field, whatever the order of the visit of the config map.
C17_FieldBuilderAllOrNothing ==
    (ret.op = "Object.GetFields" /\ GetError(heap, ret.recv) # NoErr)
    => DOMAIN ret.val = {}

-----------------------------------------------------------------------------
(* SpecAddField: SpecFields with an Interface beside the Object: a         *)
(* behaviour builds one Object or one Interface, adds field configs to it  *)
(* and asks for its fields.                                                *)

\* Interface.GetFields: the heap as the call leaves it, and the map returned.
InterfaceGetFields(h, it, order, argOrder) ==
    LET defined == defineFieldMap(h, String(h, it), h[it].typeConfig.Fields, order, argOrder)
    IN  [heap |-> [h EXCEPT ![it].fields = defined.fields, ![it].err = defined.err],
         val |-> defined.fields]

\* Interface.AddFieldConfig: the heap as the call leaves it, and whether the
\* call panicked (assignment to an entry of a nil map).
InterfaceAddFieldConfig(h, it, fieldName, fieldConfig) ==
    IF fieldName = NoName \/ fieldConfig.nil
    THEN [heap |-> h, panic |-> FALSE]
    ELSE IF h[it].typeConfig.Fields.nil
    THEN [heap |-> h, panic |-> TRUE]
    ELSE [heap |-> [h EXCEPT ![it].typeConfig.Fields.map = MapPut(@, fieldName, fieldConfig)],
          panic |-> FALSE]

\* An Interface with no Fields map, with an empty one, with one field, with
\* one faulty field, and one with an invalid name.
AddFieldInterfaceConfigs ==
    {InterfaceConfig(NamePet, f, NilFn) :
        f \in {NilFieldConfigMap, FieldConfigMap(EmptyMap),
               FieldConfigMap([n \in {NameName} |-> FieldConfig(1, EmptyMap)]),
               FieldConfigMap([n \in {NameName} |-> FieldConfig(NIL, EmptyMap)])}}
    \cup {InterfaceConfig(NameDigitFirst, NilFieldConfigMap, NilFn)}

DoNewObjectAddField == InterfacesOf(heap) = {} /\ DoNewObjectFields

DoNewInterfaceAddField ==
    /\ Objects(heap) = {}
    /\ InterfacesOf(heap) = {}
    /\ \E config \in AddFieldInterfaceConfigs :
        /\ heap' = Append(heap, NewInterface(config))
        /\ ret' = Call("NewInterface", NIL, config, Len(heap) + 1)
        /\ UNCHANGED consultedAt

DoInterfaceAddFieldConfig ==
    \E it \in InterfacesOf(heap), fieldName \in {NoName, NameBestFriend} :
    \E fieldConfig \in AddedFieldConfigs(it) :
        /\ heap' = InterfaceAddFieldConfig(heap, it, fieldName, fieldConfig).heap
        /\ ret' = Call("Interface.AddFieldConfig", it, <<fieldName, fieldConfig>>,
                       [panic |-> InterfaceAddFieldConfig(heap, it, fieldName, fieldConfig).panic])
        /\ UNCHANGED consultedAt

DoInterfaceGetFields ==
    \E it \in InterfacesOf(heap) :
    \E order \in Orders(DOMAIN heap[it].typeConfig.Fields.map) :
    \E argOrder \in ArgOrders(heap[it].typeConfig.Fields) :
        /\ heap' = InterfaceGetFields(heap, it, order, argOrder).heap
        /\ ret' = Call("Interface.GetFields", it, NIL,
                       InterfaceGetFields(heap, it, order, argOrder).val)
        /\ UNCHANGED consultedAt

NextAddField ==
    \/ DoNewObjectAddField
    \/ DoObjectAddFieldConfig
    \/ DoObjectGetFields
    \/ DoNewInterfaceAddField
    \/ DoInterfaceAddFieldConfig
    \/ DoInterfaceGetFields

SpecAddField == InitFields /\ [][NextAddField]_vars

AddFieldConfigOps == {"Object.AddFieldConfig", "Interface.AddFieldConfig"}

GetFieldsOps == {"Object.GetFields", "Interface.GetFields"}

\* C21, first part: no call of AddFieldConfig on an Object or Interface
\* returned by its constructor ends in a runtime panic.
C21_NoPanic ==
    ret.op \in AddFieldConfigOps => ~ret.val.panic

\* C21, second part: the GetFields() call that follows an AddFieldConfig
\* with a non-empty name and a non-nil config, on the same type, includes
\* that field.
C21_NextGetFieldsIncludesField ==
    [][(/\ ret.op \in AddFieldConfigOps
        /\ ret.arg[1] # NoName
        /\ ~ret.arg[2].nil
        /\ ret'.op \in GetFieldsOps
        /\ ret'.recv = ret.recv)
       => ret.arg[1] \in DOMAIN ret'.val]_vars

\* C21, third part: AddFieldConfig with an empty name or a nil config leaves
\* the field configuration of the type unchanged.
C21_EmptyOrNilLeavesConfig ==
    [][(/\ ret'.op \in AddFieldConfigOps
        /\ (ret'.arg[1] = NoName \/ ret'.arg[2].nil))
       => heap'[ret'.recv].typeConfig = heap[ret'.recv].typeConfig]_vars

\* C21: AddFieldConfig never fails by runtime panic: called with a non-empty
\* field name and a non-nil config on any Object or Interface returned by
\* its constructor (one built with no Fields map or with an invalid name
\* included) it completes normally and the next GetFields() call includes
\* that field; called with an empty name or a nil config it leaves the
\* field configuration unchanged.
C21_AddFieldConfigNeverPanics ==
    /\ [](ret.op \in AddFieldConfigOps => ~ret.val.panic)
    /\ [][/\ (/\ ret.op \in AddFieldConfigOps
              /\ ret.arg[1] # NoName
              /\ ~ret.arg[2].nil
              /\ ret'.op \in GetFieldsOps
              /\ ret'.recv = ret.recv)
             => ret.arg[1] \in DOMAIN ret'.val
          /\ (/\ ret'.op \in AddFieldConfigOps
              /\ (ret'.arg[1] = NoName \/ ret'.arg[2].nil))
             => heap'[ret'.recv].typeConfig = heap[ret'.recv].typeConfig]_vars

====
